---------------------------- MODULE Spec2Model ----------------------------
(***************************************************************************)
(* EFI Boot Guard: selection of the boot configuration among the redundant *)
(* config partitions (env/fatvars.c, load_config), together with the file  *)
(* layer and UEFI services it calls (the doubles of the unit test).        *)
(*                                                                         *)
(* One run of load_config is split at the places where the code itself is  *)
(* sequential: the prologue (allocation, enumeration, filter), one step    *)
(* per iteration of the load loop, and the epilogue (state transition,     *)
(* write-back, hand-off).  The config files persist from one run (boot) to *)
(* the next.  Every external call may fail, as the error injection of the  *)
(* unit test makes it fail.                                                *)
(*                                                                         *)
(* Arrays are 1-based here: volume index v of the model is index v-1 of    *)
(* the code; only the order of the indices matters to the code.            *)
(***************************************************************************)
EXTENDS Integers, Sequences, FiniteSets, TLC

(***************************************************************************)
(* Bounds of the model.                                                    *)
(***************************************************************************)
\* highest revision a config file holds at power-on
MaxRevision == 2
\* number of boots (runs of load_config) followed
MaxBoots == 3
\* external calls that may fail within one run
MaxFaults == 1

(***************************************************************************)
(* Program constants.                                                      *)
(***************************************************************************)
ENVSLOTS == 3
ENV_NUM_CONFIG_PARTS == 2
ENV_STRING_LENGTH == 3
REVISION_FAILED == 0

USTATE_OK == "USTATE_OK"
USTATE_INSTALLED == "USTATE_INSTALLED"
USTATE_TESTING == "USTATE_TESTING"
USTATE_FAILED == "USTATE_FAILED"
USTATE_UNKNOWN == "USTATE_UNKNOWN"

BG_SUCCESS == "BG_SUCCESS"
BG_CONFIG_ERROR == "BG_CONFIG_ERROR"
BG_CONFIG_PARTIALLY_CORRUPTED == "BG_CONFIG_PARTIALLY_CORRUPTED"

EFI_SUCCESS == "EFI_SUCCESS"
EFI_INVALID_PARAMETER == "EFI_INVALID_PARAMETER"
EFI_BAD_BUFFER_SIZE == "EFI_BAD_BUFFER_SIZE"
EFI_CRC_ERROR == "EFI_CRC_ERROR"

EFI_ERROR(status) == status # EFI_SUCCESS

\* device paths of the test volumes
boot_volume == "boot_volume"
non_boot_volume == "non_boot_volume"
non_boot_disk == "non_boot_disk"

\* Variant: no volume counts as the boot volume.
IsOnBootVolume_none(dp) == FALSE

IsOnBootVolume(dp) == dp = boot_volume

(***************************************************************************)
(* BG_ENVDATA and its checksum.                                            *)
(***************************************************************************)
RECURSIVE SumSeq(_)
SumSeq(s) == IF s = <<>> THEN 0 ELSE Head(s) + 2 * SumSeq(Tail(s))

UstateCode(u) ==
    CASE u = USTATE_OK -> 0
      [] u = USTATE_INSTALLED -> 1
      [] u = USTATE_TESTING -> 2
      [] u = USTATE_FAILED -> 3
      [] OTHER -> 4

\* The checksum of the record without its trailing crc32 field.
bgenv_crc32(e) ==
    (  7 * SumSeq(e.kernelfile) + 11 * SumSeq(e.kernelparams)
     + 13 * e.in_progress + 17 * UstateCode(e.ustate)
     + 19 * e.watchdog_timeout_sec + 23 * e.revision + 5) % 251

\* envdata_init of the test: the record with its checksum filled in.
envdata_init(e) == [e EXCEPT !.crc32 = bgenv_crc32(e)]

\* A record whose stored checksum does not match.
Corrupted(e) == [e EXCEPT !.crc32 = (bgenv_crc32(e) + 1) % 251]

\* What a slot of env[] holds before anything is read into it.
Uninitialized ==
    [kernelfile |-> <<>>, kernelparams |-> <<>>, in_progress |-> 0,
     ustate |-> "uninitialized", watchdog_timeout_sec |-> 0,
     revision |-> 0, crc32 |-> 0]

\* kernelfile[ENV_STRING_LENGTH - 1] = 0
NulTerminate(s) == [s EXCEPT ![ENV_STRING_LENGTH] = 0]

RECURSIVE StrDuplicate(_)
StrDuplicate(src) ==
    IF src = <<>> \/ Head(src) = 0 THEN <<>>
    ELSE <<Head(src)>> \o StrDuplicate(Tail(src))

(***************************************************************************)
(* Ranking.                                                                *)
(***************************************************************************)
\* Variant: OK is ranked ahead of INSTALLED and TESTING.
config_state_ranking_ok_first(envdata) ==
    CASE envdata.ustate = USTATE_OK -> 0
      [] envdata.ustate = USTATE_INSTALLED -> 1
      [] envdata.ustate = USTATE_TESTING -> 2
      [] OTHER -> 3

\* 0 stands for the null pointer; rank -1 of the code is never compared.
config_state_ranking(envdata) ==
    CASE envdata.ustate = USTATE_INSTALLED -> 0
      [] envdata.ustate = USTATE_TESTING -> 1
      [] envdata.ustate = USTATE_OK -> 2
      [] OTHER -> 3


\* Variant: the lower revision is preferred.
sift_swap_lowest_revision(env, vols, lhs, rhs) ==
    IF rhs = 0 THEN FALSE
    ELSE IF lhs = 0 THEN TRUE
    ELSE LET l == env[lhs]
             r == env[rhs]
             lstaterank == config_state_ranking(l.envdata)
             rstaterank == config_state_ranking(r.envdata)
             lbootvolume == IsOnBootVolume(vols[l.volume_index].devpath)
             rbootvolume == IsOnBootVolume(vols[r.volume_index].devpath)
         IN  IF l.envdata.in_progress # r.envdata.in_progress
                 THEN l.envdata.in_progress > r.envdata.in_progress
             ELSE IF l.envdata.revision # r.envdata.revision
                 THEN l.envdata.revision > r.envdata.revision
             ELSE IF lstaterank # rstaterank
                 THEN lstaterank > rstaterank
             ELSE IF lbootvolume # rbootvolume
                 THEN (~lbootvolume) /\ rbootvolume
             ELSE IF l.volume_index # r.volume_index
                 THEN l.volume_index > r.volume_index
             ELSE FALSE

\* Variant: the revision is compared before in_progress.
sift_swap_revision_first(env, vols, lhs, rhs) ==
    IF rhs = 0 THEN FALSE
    ELSE IF lhs = 0 THEN TRUE
    ELSE LET l == env[lhs]
             r == env[rhs]
             lstaterank == config_state_ranking(l.envdata)
             rstaterank == config_state_ranking(r.envdata)
             lbootvolume == IsOnBootVolume(vols[l.volume_index].devpath)
             rbootvolume == IsOnBootVolume(vols[r.volume_index].devpath)
         IN  IF l.envdata.revision # r.envdata.revision
                 THEN l.envdata.revision < r.envdata.revision
             ELSE IF l.envdata.in_progress # r.envdata.in_progress
                 THEN l.envdata.in_progress > r.envdata.in_progress
             ELSE IF lstaterank # rstaterank
                 THEN lstaterank > rstaterank
             ELSE IF lbootvolume # rbootvolume
                 THEN (~lbootvolume) /\ rbootvolume
             ELSE IF l.volume_index # r.volume_index
                 THEN l.volume_index > r.volume_index
             ELSE FALSE

\* Variant: the higher volume index is preferred.
sift_swap_higher_index(env, vols, lhs, rhs) ==
    IF rhs = 0 THEN FALSE
    ELSE IF lhs = 0 THEN TRUE
    ELSE LET l == env[lhs]
             r == env[rhs]
             lstaterank == config_state_ranking(l.envdata)
             rstaterank == config_state_ranking(r.envdata)
             lbootvolume == IsOnBootVolume(vols[l.volume_index].devpath)
             rbootvolume == IsOnBootVolume(vols[r.volume_index].devpath)
         IN  IF l.envdata.in_progress # r.envdata.in_progress
                 THEN l.envdata.in_progress > r.envdata.in_progress
             ELSE IF l.envdata.revision # r.envdata.revision
                 THEN l.envdata.revision < r.envdata.revision
             ELSE IF lstaterank # rstaterank
                 THEN lstaterank > rstaterank
             ELSE IF lbootvolume # rbootvolume
                 THEN (~lbootvolume) /\ rbootvolume
             ELSE IF l.volume_index # r.volume_index
                 THEN l.volume_index < r.volume_index
             ELSE FALSE

\* The decision of sift_envdata_volume: whether the right-hand entry is
\* preferred.  lhs and rhs are slots of env[], 0 standing for NULL.
sift_swap(env, vols, lhs, rhs) ==
    IF rhs = 0 THEN FALSE
    ELSE IF lhs = 0 THEN TRUE
    ELSE LET l == env[lhs]
             r == env[rhs]
             lstaterank == config_state_ranking(l.envdata)
             rstaterank == config_state_ranking(r.envdata)
             lbootvolume == IsOnBootVolume(vols[l.volume_index].devpath)
             rbootvolume == IsOnBootVolume(vols[r.volume_index].devpath)
         IN  IF l.envdata.in_progress # r.envdata.in_progress
                 THEN l.envdata.in_progress > r.envdata.in_progress
             ELSE IF l.envdata.revision # r.envdata.revision
                 THEN l.envdata.revision < r.envdata.revision
             ELSE IF lstaterank # rstaterank
                 THEN lstaterank > rstaterank
             ELSE IF lbootvolume # rbootvolume
                 THEN (~lbootvolume) /\ rbootvolume
             ELSE IF l.volume_index # r.volume_index
                 THEN l.volume_index > r.volume_index
             ELSE FALSE

\* sift_envdata_volume(rank + i, rank + i + 1)
sift_envdata_volume(rank, env, vols, i) ==
    IF sift_swap(env, vols, rank[i], rank[i + 1])
    THEN [rank EXCEPT ![i] = rank[i + 1], ![i + 1] = rank[i]]
    ELSE rank

\* Variant: only the last pair is sifted, so that a new entry never reaches
\* the leader's place.
sift_loop_single_pair(rank, env, vols, envrank) ==
    sift_envdata_volume(rank, env, vols, envrank - 1)

\* Variant: the pairs are sifted from the top down, so that a new entry
\* rises by one place at most.
sift_loop_top_down(rank, env, vols, envrank) ==
    sift_envdata_volume(sift_envdata_volume(rank, env, vols, 1),
                        env, vols, envrank - 1)

\* do { --envrank; sift(envrank+0, envrank+1); } while (envrank != rank_envdata)
RECURSIVE sift_loop(_, _, _, _)
sift_loop(rank, env, vols, envrank) ==
    LET sifted == sift_envdata_volume(rank, env, vols, envrank - 1)
    IN  IF envrank - 1 = 1 THEN sifted
        ELSE sift_loop(sifted, env, vols, envrank - 1)

(***************************************************************************)
(* The file layer and the UEFI services, as the test provides them.  A     *)
(* fault set f names the calls that fail in the operation at hand.         *)
(***************************************************************************)
sizeof_BG_ENVDATA == 2 * ENV_STRING_LENGTH + 5

\* enumerate_cfg_parts: the indices of the volumes that have a root.
RECURSIVE enumerate_cfg_parts(_, _)
enumerate_cfg_parts(vols, vx) ==
    IF vx > Len(vols) THEN <<>>
    ELSE (IF vols[vx].root THEN <<vx>> ELSE <<>>)
         \o enumerate_cfg_parts(vols, vx + 1)

\* Variant: no volume is dropped.
filter_cfg_parts_none(vols, config_vols) == config_vols

\* filter_cfg_parts: drops the volumes that are not on the boot disk.
RECURSIVE filter_cfg_parts(_, _)
filter_cfg_parts(vols, config_vols) ==
    IF config_vols = <<>> THEN <<>>
    ELSE (IF vols[Head(config_vols)].devpath # non_boot_disk
          THEN <<Head(config_vols)>> ELSE <<>>)
         \o filter_cfg_parts(vols, Tail(config_vols))

\* config_file_protocol_read: the length read and the buffer afterwards.
config_file_protocol_read(volume, buffer) ==
    IF volume.envdata = <<>>
    THEN [BufferSize |-> 0, Buffer |-> buffer]
    ELSE [BufferSize |-> sizeof_BG_ENVDATA, Buffer |-> volume.envdata[1]]

\* config_file_protocol_write: the file afterwards.
config_file_protocol_write(volume, BufferSize, Buffer) ==
    IF BufferSize = sizeof_BG_ENVDATA
    THEN [status |-> EFI_SUCCESS, volume |-> [volume EXCEPT !.envdata = <<Buffer>>]]
    ELSE [status |-> EFI_BAD_BUFFER_SIZE, volume |-> volume]

(***************************************************************************)
(* read_config: status, the error flag, the buffer afterwards, the calls   *)
(* made, the file handles opened and those closed.                          *)
(***************************************************************************)
\* Variant: the stored checksum is not compared with the computed one.
read_config_crc_unchecked(volume, envdata, f) ==
    IF "open" \in f
    THEN [status |-> EFI_INVALID_PARAMETER, errored |-> TRUE,
          envdata |-> envdata, calls |-> {"open"}, opened |-> 0, closed |-> 0]
    ELSE
    LET rd == IF "read" \in f
              THEN [BufferSize |-> sizeof_BG_ENVDATA, Buffer |-> envdata]
              ELSE config_file_protocol_read(volume, envdata)
        read_status == IF "read" \in f THEN EFI_INVALID_PARAMETER ELSE EFI_SUCCESS
        close_errored == "close" \in f
        crc_status == IF "CalculateCrc32" \in f
                      THEN EFI_INVALID_PARAMETER ELSE EFI_SUCCESS
    IN  IF EFI_ERROR(read_status)
        THEN [status |-> read_status, errored |-> TRUE, envdata |-> rd.Buffer,
              calls |-> {"open", "read", "close"}, opened |-> 1, closed |-> 1]
        ELSE IF rd.BufferSize # sizeof_BG_ENVDATA
        THEN [status |-> EFI_BAD_BUFFER_SIZE, errored |-> TRUE,
              envdata |-> rd.Buffer,
              calls |-> {"open", "read", "close"}, opened |-> 1, closed |-> 1]
        ELSE IF EFI_ERROR(crc_status)
        THEN [status |-> crc_status, errored |-> TRUE, envdata |-> rd.Buffer,
              calls |-> {"open", "read", "close", "CalculateCrc32"},
              opened |-> 1, closed |-> 1]
        ELSE IF FALSE
        THEN [status |-> EFI_CRC_ERROR, errored |-> TRUE, envdata |-> rd.Buffer,
              calls |-> {"open", "read", "close", "CalculateCrc32"},
              opened |-> 1, closed |-> 1]
        ELSE [status |-> EFI_SUCCESS, errored |-> close_errored,
              envdata |-> rd.Buffer,
              calls |-> {"open", "read", "close", "CalculateCrc32"},
              opened |-> 1, closed |-> 1]

\* Variant: a failing close after a good read is not reported.
read_config_close_unreported(volume, envdata, f) ==
    IF "open" \in f
    THEN [status |-> EFI_INVALID_PARAMETER, errored |-> TRUE,
          envdata |-> envdata, calls |-> {"open"}, opened |-> 0, closed |-> 0]
    ELSE
    LET rd == IF "read" \in f
              THEN [BufferSize |-> sizeof_BG_ENVDATA, Buffer |-> envdata]
              ELSE config_file_protocol_read(volume, envdata)
        read_status == IF "read" \in f THEN EFI_INVALID_PARAMETER ELSE EFI_SUCCESS
        close_errored == "close" \in f
        crc_status == IF "CalculateCrc32" \in f
                      THEN EFI_INVALID_PARAMETER ELSE EFI_SUCCESS
    IN  IF EFI_ERROR(read_status)
        THEN [status |-> read_status, errored |-> TRUE, envdata |-> rd.Buffer,
              calls |-> {"open", "read", "close"}, opened |-> 1, closed |-> 1]
        ELSE IF rd.BufferSize # sizeof_BG_ENVDATA
        THEN [status |-> EFI_BAD_BUFFER_SIZE, errored |-> TRUE,
              envdata |-> rd.Buffer,
              calls |-> {"open", "read", "close"}, opened |-> 1, closed |-> 1]
        ELSE IF EFI_ERROR(crc_status)
        THEN [status |-> crc_status, errored |-> TRUE, envdata |-> rd.Buffer,
              calls |-> {"open", "read", "close", "CalculateCrc32"},
              opened |-> 1, closed |-> 1]
        ELSE IF bgenv_crc32(rd.Buffer) # rd.Buffer.crc32
        THEN [status |-> EFI_CRC_ERROR, errored |-> TRUE, envdata |-> rd.Buffer,
              calls |-> {"open", "read", "close", "CalculateCrc32"},
              opened |-> 1, closed |-> 1]
        ELSE [status |-> EFI_SUCCESS, errored |-> FALSE,
              envdata |-> rd.Buffer,
              calls |-> {"open", "read", "close", "CalculateCrc32"},
              opened |-> 1, closed |-> 1]

read_config(volume, envdata, f) ==
    IF "open" \in f
    THEN [status |-> EFI_INVALID_PARAMETER, errored |-> TRUE,
          envdata |-> envdata, calls |-> {"open"}, opened |-> 0, closed |-> 0]
    ELSE
    LET rd == IF "read" \in f
              THEN [BufferSize |-> sizeof_BG_ENVDATA, Buffer |-> envdata]
              ELSE config_file_protocol_read(volume, envdata)
        read_status == IF "read" \in f THEN EFI_INVALID_PARAMETER ELSE EFI_SUCCESS
        close_errored == "close" \in f
        crc_status == IF "CalculateCrc32" \in f
                      THEN EFI_INVALID_PARAMETER ELSE EFI_SUCCESS
    IN  IF EFI_ERROR(read_status)
        THEN [status |-> read_status, errored |-> TRUE, envdata |-> rd.Buffer,
              calls |-> {"open", "read", "close"}, opened |-> 1, closed |-> 1]
        ELSE IF rd.BufferSize # sizeof_BG_ENVDATA
        THEN [status |-> EFI_BAD_BUFFER_SIZE, errored |-> TRUE,
              envdata |-> rd.Buffer,
              calls |-> {"open", "read", "close"}, opened |-> 1, closed |-> 1]
        ELSE IF EFI_ERROR(crc_status)
        THEN [status |-> crc_status, errored |-> TRUE, envdata |-> rd.Buffer,
              calls |-> {"open", "read", "close", "CalculateCrc32"},
              opened |-> 1, closed |-> 1]
        ELSE IF bgenv_crc32(rd.Buffer) # rd.Buffer.crc32
        THEN [status |-> EFI_CRC_ERROR, errored |-> TRUE, envdata |-> rd.Buffer,
              calls |-> {"open", "read", "close", "CalculateCrc32"},
              opened |-> 1, closed |-> 1]
        ELSE [status |-> EFI_SUCCESS, errored |-> close_errored,
              envdata |-> rd.Buffer,
              calls |-> {"open", "read", "close", "CalculateCrc32"},
              opened |-> 1, closed |-> 1]

(***************************************************************************)
(* save_current_config: the result, the slot and the volumes afterwards,   *)
(* the arguments of the calls of Write, the calls made, the file handles   *)
(* opened and those closed.                                                *)
(***************************************************************************)
\* A Write that stores all bytes but the last one and reports the shorter
\* length with EFI_SUCCESS, as EFI_FILE_PROTOCOL.Write may: the file keeps
\* its old crc32 field.
short_write(volume, Buffer) ==
    [status |-> EFI_SUCCESS,
     volume |-> [volume EXCEPT !.envdata =
                    <<[Buffer EXCEPT !.crc32 =
                          IF volume.envdata = <<>> THEN 0
                          ELSE volume.envdata[1].crc32]>>]]

\* Variant: the volume array indexed one off.
writeback_volume_off_by_one(slot) == slot.volume_index - 1

\* VOLUME_DESC *v = &volumes[env->volume_index];
writeback_volume(slot) == slot.volume_index

\* Variant: the file is not closed when the write fails.
save_current_config_leaks_on_error(slot, vols, f) ==
    LET v == writeback_volume(slot)
    IN
    IF "open" \in f
    THEN [result |-> BG_CONFIG_ERROR, slot |-> slot, volumes |-> vols,
          volume_index |-> v, wrote |-> <<>>, calls |-> {"open"},
          opened |-> 0, closed |-> 0]
    ELSE IF "CalculateCrc32" \in f
    THEN [result |-> BG_CONFIG_ERROR, slot |-> slot, volumes |-> vols,
          volume_index |-> v, wrote |-> <<>>,
          calls |-> {"open", "CalculateCrc32", "close"},
          opened |-> 1, closed |-> 1]
    ELSE
    LET writelen == sizeof_BG_ENVDATA
        stamped == [slot EXCEPT !.envdata.crc32 = bgenv_crc32(slot.envdata)]
        wr == IF "write" \in f
              THEN [status |-> EFI_INVALID_PARAMETER, volume |-> vols[v]]
              ELSE IF "short_write" \in f
              THEN short_write(vols[v], stamped.envdata)
              ELSE config_file_protocol_write(vols[v], writelen, stamped.envdata)
        after == [result |-> BG_CONFIG_ERROR, slot |-> stamped,
                  volumes |-> [vols EXCEPT ![v] = wr.volume],
                  volume_index |-> v,
                  wrote |-> IF "write" \in f THEN <<>>
                            ELSE <<[BufferSize |-> writelen,
                                    Buffer |-> stamped.envdata,
                                    written |-> IF "short_write" \in f
                                                THEN writelen - 1
                                                ELSE writelen]>>,
                  calls |-> {"open", "CalculateCrc32", "write", "short_write",
                             "close"},
                  opened |-> 1, closed |-> 1]
    IN  IF EFI_ERROR(wr.status) THEN [after EXCEPT !.closed = 0]
        ELSE IF "close" \in f THEN after
        ELSE [after EXCEPT !.result = BG_SUCCESS]

\* Variant: the record is written with the checksum it was read with.
save_current_config_stale_crc(slot, vols, f) ==
    LET v == writeback_volume(slot)
    IN
    IF "open" \in f
    THEN [result |-> BG_CONFIG_ERROR, slot |-> slot, volumes |-> vols,
          volume_index |-> v, wrote |-> <<>>, calls |-> {"open"},
          opened |-> 0, closed |-> 0]
    ELSE IF "CalculateCrc32" \in f
    THEN [result |-> BG_CONFIG_ERROR, slot |-> slot, volumes |-> vols,
          volume_index |-> v, wrote |-> <<>>,
          calls |-> {"open", "CalculateCrc32", "close"},
          opened |-> 1, closed |-> 1]
    ELSE
    LET writelen == sizeof_BG_ENVDATA
        stamped == slot
        wr == IF "write" \in f
              THEN [status |-> EFI_INVALID_PARAMETER, volume |-> vols[v]]
              ELSE IF "short_write" \in f
              THEN short_write(vols[v], stamped.envdata)
              ELSE config_file_protocol_write(vols[v], writelen, stamped.envdata)
        after == [result |-> BG_CONFIG_ERROR, slot |-> stamped,
                  volumes |-> [vols EXCEPT ![v] = wr.volume],
                  volume_index |-> v,
                  wrote |-> IF "write" \in f THEN <<>>
                            ELSE <<[BufferSize |-> writelen,
                                    Buffer |-> stamped.envdata,
                                    written |-> IF "short_write" \in f
                                                THEN writelen - 1
                                                ELSE writelen]>>,
                  calls |-> {"open", "CalculateCrc32", "write", "short_write",
                             "close"},
                  opened |-> 1, closed |-> 1]
    IN  IF EFI_ERROR(wr.status) THEN after
        ELSE IF "close" \in f THEN after
        ELSE [after EXCEPT !.result = BG_SUCCESS]

save_current_config(slot, vols, f) ==
    LET v == writeback_volume(slot)
    IN
    IF "open" \in f
    THEN [result |-> BG_CONFIG_ERROR, slot |-> slot, volumes |-> vols,
          volume_index |-> v, wrote |-> <<>>, calls |-> {"open"},
          opened |-> 0, closed |-> 0]
    ELSE IF "CalculateCrc32" \in f
    THEN [result |-> BG_CONFIG_ERROR, slot |-> slot, volumes |-> vols,
          volume_index |-> v, wrote |-> <<>>,
          calls |-> {"open", "CalculateCrc32", "close"},
          opened |-> 1, closed |-> 1]
    ELSE
    LET writelen == sizeof_BG_ENVDATA
        stamped == [slot EXCEPT !.envdata.crc32 = bgenv_crc32(slot.envdata)]
        wr == IF "write" \in f
              THEN [status |-> EFI_INVALID_PARAMETER, volume |-> vols[v]]
              ELSE IF "short_write" \in f
              THEN short_write(vols[v], stamped.envdata)
              ELSE config_file_protocol_write(vols[v], writelen, stamped.envdata)
        after == [result |-> BG_CONFIG_ERROR, slot |-> stamped,
                  volumes |-> [vols EXCEPT ![v] = wr.volume],
                  volume_index |-> v,
                  wrote |-> IF "write" \in f THEN <<>>
                            ELSE <<[BufferSize |-> writelen,
                                    Buffer |-> stamped.envdata,
                                    written |-> IF "short_write" \in f
                                                THEN writelen - 1
                                                ELSE writelen]>>,
                  calls |-> {"open", "CalculateCrc32", "write", "short_write",
                             "close"},
                  opened |-> 1, closed |-> 1]
    IN  IF EFI_ERROR(wr.status) THEN after
        ELSE IF "close" \in f THEN after
        ELSE [after EXCEPT !.result = BG_SUCCESS]

(***************************************************************************)
(* State.                                                                  *)
(***************************************************************************)
VARIABLES
    volumes,         \* volumes[]: devpath, root and the config file of each
    pc,              \* "idle" between runs, "loop" inside load_config
    boot,            \* number of runs of load_config begun so far
    faulted,         \* an external call has failed in some run so far
    bglp,            \* the caller's BG_LOADER_PARAMS
    config_volumes,  \* the index vector
    numHandles,
    ix,
    errored,
    env,             \* env[ENVSLOTS]
    rank_envdata,    \* rank_envdata[ENVSLOTS]: a slot of env[], 0 for NULL
    envrsrv,         \* number of entries of rsrv_envdata[] not yet taken
    result,
    chosen,          \* volume index logged as "Choosing config on volume"
    saves,           \* the calls of save_current_config of this run
    loaded,          \* the candidates read_config loaded in this run
    nfail,           \* external calls that failed in this run
    fh_opened,       \* file handles opened in this run
    fh_closed,       \* file handles closed in this run
    pool_live,       \* pool allocations not yet freed
    call_in,         \* volumes and bglp as they were when the run began
    volumes0,        \* volumes at power-on of the first boot
    opened_on,       \* volumes whose config file this run asked to open
    failed_at,       \* where an external call failed in this run
    reads            \* the calls of read_config of this run and their outcome

vars == <<volumes, pc, boot, faulted, bglp, config_volumes, numHandles, ix, errored,
          env, rank_envdata, envrsrv, result, chosen, saves, loaded, nfail,
          fh_opened, fh_closed, pool_live, call_in, volumes0, opened_on,
          failed_at, reads>>

volume_count == Len(volumes)

(***************************************************************************)
(* load_config, prologue: from the entry to the head of the load loop.     *)
(***************************************************************************)
\* Variant: the number of listed volumes is not compared with
\* ENV_NUM_CONFIG_PARTS.
load_config_begin_any_count(vols, f) ==
    LET failed == [done |-> TRUE, result |-> BG_CONFIG_ERROR,
                   config_volumes |-> <<>>, numHandles |-> Len(vols),
                   errored |-> FALSE, calls |-> {}]
    IN  IF Len(vols) = 0 THEN failed
        ELSE IF "AllocatePool" \in f
        THEN [failed EXCEPT !.calls = {"AllocatePool"}]
        ELSE IF "enumerate_cfg_parts" \in f
        THEN [failed EXCEPT !.calls = {"AllocatePool", "enumerate_cfg_parts"}]
        ELSE LET listed == filter_cfg_parts(vols, enumerate_cfg_parts(vols, 1))
             IN  [done |-> FALSE, result |-> BG_CONFIG_ERROR,
                  config_volumes |-> listed, numHandles |-> Len(listed),
                  errored |-> FALSE,
                  calls |-> {"AllocatePool", "enumerate_cfg_parts"}]

\* Variant: the status of enumerate_cfg_parts is not looked at.
load_config_begin_enumerate_unchecked(vols, f) ==
    LET failed == [done |-> TRUE, result |-> BG_CONFIG_ERROR,
                   config_volumes |-> <<>>, numHandles |-> Len(vols),
                   errored |-> FALSE, calls |-> {}]
    IN  IF Len(vols) = 0 THEN failed
        ELSE IF "AllocatePool" \in f
        THEN [failed EXCEPT !.calls = {"AllocatePool"}]
        ELSE LET listed == filter_cfg_parts(vols, enumerate_cfg_parts(vols, 1))
             IN  [done |-> FALSE, result |-> BG_CONFIG_ERROR,
                  config_volumes |-> listed, numHandles |-> Len(listed),
                  errored |-> (Len(listed) # ENV_NUM_CONFIG_PARTS),
                  calls |-> {"AllocatePool", "enumerate_cfg_parts"}]

load_config_begin(vols, f) ==
    LET failed == [done |-> TRUE, result |-> BG_CONFIG_ERROR,
                   config_volumes |-> <<>>, numHandles |-> Len(vols),
                   errored |-> FALSE, calls |-> {}]
    IN  IF Len(vols) = 0 THEN failed
        ELSE IF "AllocatePool" \in f
        THEN [failed EXCEPT !.calls = {"AllocatePool"}]
        ELSE IF "enumerate_cfg_parts" \in f
        THEN [failed EXCEPT !.calls = {"AllocatePool", "enumerate_cfg_parts"}]
        ELSE LET listed == filter_cfg_parts(vols, enumerate_cfg_parts(vols, 1))
             IN  [done |-> FALSE, result |-> BG_CONFIG_ERROR,
                  config_volumes |-> listed, numHandles |-> Len(listed),
                  errored |-> (Len(listed) # ENV_NUM_CONFIG_PARTS),
                  calls |-> {"AllocatePool", "enumerate_cfg_parts"}]

(***************************************************************************)
(* load_config, one iteration of the load loop.  L holds the locals.       *)
(***************************************************************************)
\* Variant: every iteration takes a fresh slot from the reserve.
load_config_iteration_always_takes(L, vols, f) ==
    LET take == TRUE
        slot == IF ~take THEN L.rank_envdata[ENVSLOTS]
                ELSE IF L.envrsrv >= 1 THEN L.envrsrv ELSE 1
        rsrv == IF take THEN L.envrsrv - 1 ELSE L.envrsrv
        rank1 == [L.rank_envdata EXCEPT ![ENVSLOTS] = slot]
        volume_index == L.config_volumes[L.ix + 1]
        rc == read_config(vols[volume_index], L.env[slot].envdata, f)
        terminated == [rc.envdata EXCEPT
                      !.kernelfile = NulTerminate(@),
                      !.kernelparams = NulTerminate(@)]
        env1 == [L.env EXCEPT ![slot] =
                    [volume_index |-> volume_index,
                     envdata |-> IF EFI_ERROR(rc.status) THEN rc.envdata
                                 ELSE terminated]]
    IN  [env |-> env1,
         rank_envdata |-> IF EFI_ERROR(rc.status) THEN rank1
                          ELSE sift_loop(rank1, env1, vols, ENVSLOTS),
         envrsrv |-> rsrv,
         errored |-> (L.errored \/ rc.errored),
         ix |-> L.ix + 1,
         status |-> rc.status, read_error |-> rc.errored, slot |-> env1[slot],
         calls |-> rc.calls, opened |-> rc.opened, closed |-> rc.closed]

\* Variant: the slot is sifted whether or not read_config succeeded.
load_config_iteration_sifts_failed(L, vols, f) ==
    LET take == L.rank_envdata[ENVSLOTS] = 0
        slot == IF ~take THEN L.rank_envdata[ENVSLOTS]
                ELSE IF L.envrsrv >= 1 THEN L.envrsrv ELSE 1
        rsrv == IF take THEN L.envrsrv - 1 ELSE L.envrsrv
        rank1 == [L.rank_envdata EXCEPT ![ENVSLOTS] = slot]
        volume_index == L.config_volumes[L.ix + 1]
        rc == read_config(vols[volume_index], L.env[slot].envdata, f)
        terminated == [rc.envdata EXCEPT
                      !.kernelfile = NulTerminate(@),
                      !.kernelparams = NulTerminate(@)]
        env1 == [L.env EXCEPT ![slot] =
                    [volume_index |-> volume_index,
                     envdata |-> IF EFI_ERROR(rc.status) THEN rc.envdata
                                 ELSE terminated]]
    IN  [env |-> env1,
         rank_envdata |-> sift_loop(rank1, env1, vols, ENVSLOTS),
         envrsrv |-> rsrv,
         errored |-> (L.errored \/ rc.errored),
         ix |-> L.ix + 1,
         status |-> rc.status, read_error |-> rc.errored, slot |-> env1[slot],
         calls |-> rc.calls, opened |-> rc.opened, closed |-> rc.closed]

load_config_iteration(L, vols, f) ==
    LET take == L.rank_envdata[ENVSLOTS] = 0
        slot == IF ~take THEN L.rank_envdata[ENVSLOTS]
                ELSE IF L.envrsrv >= 1 THEN L.envrsrv ELSE 1
        rsrv == IF take THEN L.envrsrv - 1 ELSE L.envrsrv
        rank1 == [L.rank_envdata EXCEPT ![ENVSLOTS] = slot]
        volume_index == L.config_volumes[L.ix + 1]
        rc == read_config(vols[volume_index], L.env[slot].envdata, f)
        terminated == [rc.envdata EXCEPT
                      !.kernelfile = NulTerminate(@),
                      !.kernelparams = NulTerminate(@)]
        env1 == [L.env EXCEPT ![slot] =
                    [volume_index |-> volume_index,
                     envdata |-> IF EFI_ERROR(rc.status) THEN rc.envdata
                                 ELSE terminated]]
    IN  [env |-> env1,
         rank_envdata |-> IF EFI_ERROR(rc.status) THEN rank1
                          ELSE sift_loop(rank1, env1, vols, ENVSLOTS),
         envrsrv |-> rsrv,
         errored |-> (L.errored \/ rc.errored),
         ix |-> L.ix + 1,
         status |-> rc.status, read_error |-> rc.errored, slot |-> env1[slot],
         calls |-> rc.calls, opened |-> rc.opened, closed |-> rc.closed]

(***************************************************************************)
(* load_config, epilogue: the state transition, the write-back and the     *)
(* hand-off to the loader parameters.                                      *)
(***************************************************************************)
\* Variant: the leader's in_progress is not looked at.
leader_viable_any(slots, next) == next # 0

\* if (!next || next->envdata.in_progress) goto failed;
leader_viable(slots, next) ==
    next # 0 /\ slots[next].envdata.in_progress = 0

\* Variant: the demoted record is put back to INSTALLED.
mark_failed_as_installed(envdata) ==
    [envdata EXCEPT !.ustate = USTATE_INSTALLED]

\* Variant: the failed record keeps its revision.
mark_failed_keeps_revision(envdata) ==
    [envdata EXCEPT !.ustate = USTATE_FAILED]

mark_failed(envdata) ==
    [envdata EXCEPT !.ustate = USTATE_FAILED, !.revision = REVISION_FAILED]

\* Variant: the first boot of an installed record marks it OK at once.
mark_testing_as_ok(envdata) ==
    [envdata EXCEPT !.ustate = USTATE_OK]

mark_testing(envdata) ==
    [envdata EXCEPT !.ustate = USTATE_TESTING]

\* Variant: the leader stays the choice after its demotion.
effective_choice_keeps_leader(ustate, next, prev) == next

\* Variant: the runner-up is taken whatever the state of the leader.
effective_choice_runner_up(ustate, next, prev) == prev

\* latest after the transition: the runner-up for a TESTING leader
effective_choice(ustate, next, prev) ==
    IF ustate = USTATE_TESTING THEN prev ELSE next

hand_off(params, envdata) ==
    [params EXCEPT !.payload_path = StrDuplicate(envdata.kernelfile),
                   !.payload_options = StrDuplicate(envdata.kernelparams),
                   !.timeout = envdata.watchdog_timeout_sec]

\* result = errored ? BG_CONFIG_PARTIALLY_CORRUPTED : BG_SUCCESS; the
\* result of save_current_config is discarded by load_config.
verdict(err) ==
    IF err THEN BG_CONFIG_PARTIALLY_CORRUPTED ELSE BG_SUCCESS

\* Variant: an INSTALLED runner-up that takes over is marked TESTING in its slot.
load_config_transition_marks_runner_up(L, vols, f) ==
    LET next == L.rank_envdata[1]
        prev == L.rank_envdata[2]
        none == [viable |-> FALSE, next |-> next, latest |-> 0,
                 env |-> L.env, volumes |-> vols, saves |-> <<>>,
                 calls |-> {}, opened |-> 0, closed |-> 0]
    IN  IF ~leader_viable(L.env, next) THEN none
        ELSE
        LET ustate == L.env[next].envdata.ustate
            marked == IF ustate = USTATE_TESTING
                          THEN mark_failed(L.env[next].envdata)
                      ELSE IF ustate = USTATE_INSTALLED
                          THEN mark_testing(L.env[next].envdata)
                      ELSE L.env[next].envdata
            env1 == [L.env EXCEPT ![next].envdata = marked]
            sv == save_current_config(env1[next], vols, f)
            kept == [none EXCEPT !.viable = TRUE, !.env = env1,
                                 !.latest = effective_choice(ustate, next, prev)]
        IN  IF ustate \in {USTATE_TESTING, USTATE_INSTALLED}
            THEN [kept EXCEPT
                    !.env = [s \in 1..ENVSLOTS |->
                        IF s = next THEN sv.slot
                        ELSE IF /\ s = prev
                                /\ ustate = USTATE_TESTING
                                /\ env1[s].envdata.ustate = USTATE_INSTALLED
                        THEN [env1[s] EXCEPT !.envdata = mark_testing(@)]
                        ELSE env1[s]],
                    !.volumes = sv.volumes,
                    !.saves = <<[volume_index |-> sv.volume_index,
                                 envdata |-> env1[next].envdata,
                                 wrote |-> sv.wrote,
                                 result |-> sv.result]>>,
                    !.calls = sv.calls,
                    !.opened = sv.opened, !.closed = sv.closed]
            ELSE kept

\* From the choice of the leader to the end of the write-back.
load_config_transition(L, vols, f) ==
    LET next == L.rank_envdata[1]
        prev == L.rank_envdata[2]
        none == [viable |-> FALSE, next |-> next, latest |-> 0,
                 env |-> L.env, volumes |-> vols, saves |-> <<>>,
                 calls |-> {}, opened |-> 0, closed |-> 0]
    IN  IF ~leader_viable(L.env, next) THEN none
        ELSE
        LET ustate == L.env[next].envdata.ustate
            marked == IF ustate = USTATE_TESTING
                          THEN mark_failed(L.env[next].envdata)
                      ELSE IF ustate = USTATE_INSTALLED
                          THEN mark_testing(L.env[next].envdata)
                      ELSE L.env[next].envdata
            env1 == [L.env EXCEPT ![next].envdata = marked]
            sv == save_current_config(env1[next], vols, f)
            kept == [none EXCEPT !.viable = TRUE, !.env = env1,
                                 !.latest = effective_choice(ustate, next, prev)]
        IN  IF ustate \in {USTATE_TESTING, USTATE_INSTALLED}
            THEN [kept EXCEPT
                    !.env = [env1 EXCEPT ![next] = sv.slot],
                    !.volumes = sv.volumes,
                    !.saves = <<[volume_index |-> sv.volume_index,
                                 envdata |-> env1[next].envdata,
                                 wrote |-> sv.wrote,
                                 result |-> sv.result]>>,
                    !.calls = sv.calls,
                    !.opened = sv.opened, !.closed = sv.closed]
            ELSE kept

\* Variant: the leader is handed off before the runner-up is looked for.
load_config_finish_handoff_first(T, params, err) ==
    IF ~T.viable
    THEN [bglp |-> params, result |-> BG_CONFIG_ERROR, chosen |-> 0]
    ELSE IF T.latest = 0
    THEN [bglp |-> hand_off(params, T.env[T.next].envdata),
          result |-> BG_CONFIG_ERROR, chosen |-> 0]
    ELSE [bglp |-> hand_off(params, T.env[T.latest].envdata),
          result |-> verdict(err),
          chosen |-> T.env[T.latest].volume_index]

\* Variant: without a runner-up the demoted leader is booted again.
load_config_finish_retry_leader(T, params, err) ==
    IF ~T.viable
    THEN [bglp |-> params, result |-> BG_CONFIG_ERROR, chosen |-> 0]
    ELSE LET latest == IF T.latest = 0 THEN T.next ELSE T.latest
         IN  [bglp |-> hand_off(params, T.env[latest].envdata),
              result |-> verdict(err),
              chosen |-> T.env[latest].volume_index]

\* From the check of the effective choice to the return.
load_config_finish(T, params, err) ==
    IF (~T.viable) \/ T.latest = 0
    THEN [bglp |-> params, result |-> BG_CONFIG_ERROR, chosen |-> 0]
    ELSE [bglp |-> hand_off(params, T.env[T.latest].envdata),
          result |-> verdict(err),
          chosen |-> T.env[T.latest].volume_index]

load_config_select(L, vols, params, f) ==
    LET T == load_config_transition(L, vols, f)
        R == load_config_finish(T, params, L.errored)
    IN  [env |-> T.env, volumes |-> T.volumes, saves |-> T.saves,
         bglp |-> R.bglp, result |-> R.result, chosen |-> R.chosen,
         calls |-> T.calls, opened |-> T.opened, closed |-> T.closed]

\* The locals of load_config at its entry.
EntryLocals ==
    [config_volumes |-> <<>>, numHandles |-> 0, ix |-> 0, errored |-> FALSE,
     env |-> [s \in 1..ENVSLOTS |->
                [volume_index |-> 0, envdata |-> Uninitialized]],
     rank_envdata |-> [s \in 1..ENVSLOTS |-> 0],
     envrsrv |-> ENVSLOTS]

RECURSIVE load_loop(_, _)
load_loop(L, vols) ==
    IF L.ix >= L.numHandles THEN L
    ELSE LET n == load_config_iteration(L, vols, {})
         IN  load_loop([L EXCEPT !.env = n.env,
                                 !.rank_envdata = n.rank_envdata,
                                 !.envrsrv = n.envrsrv,
                                 !.errored = n.errored,
                                 !.ix = n.ix], vols)

\* load_config as a whole when no external call fails: the result, the
\* loader parameters and the volumes afterwards.
load_config(vols, params) ==
    LET b == load_config_begin(vols, {})
        L == load_loop([EntryLocals EXCEPT
                           !.config_volumes = b.config_volumes,
                           !.numHandles = b.numHandles,
                           !.errored = b.errored], vols)
    IN  IF b.done
        THEN [result |-> b.result, bglp |-> params, volumes |-> vols,
              chosen |-> 0]
        ELSE LET n == load_config_select(L, vols, params, {})
             IN  [result |-> n.result, bglp |-> n.bglp,
                  volumes |-> n.volumes, chosen |-> n.chosen]

(***************************************************************************)
(* The config files at power-on.                                           *)
(***************************************************************************)
\* Each volume carries strings and a timeout of its own, so that the
\* hand-off tells which record was copied.  kernelfile fills its array
\* without a terminator; kernelparams ends early.
KernelFile(v) == [i \in 1..ENV_STRING_LENGTH |-> v]
KernelParams(v) == [i \in 1..ENV_STRING_LENGTH |-> IF i = 1 THEN v + 4 ELSE 0]

Envdata(v, p, u, r) ==
    envdata_init([kernelfile |-> KernelFile(v),
                  kernelparams |-> KernelParams(v),
                  in_progress |-> p, ustate |-> u,
                  watchdog_timeout_sec |-> 11 * v,
                  revision |-> r, crc32 |-> 0])

\* Finished records of every revision and state, a record of an unknown
\* state, and records of the newest revision left in_progress.
ValidEnvdata(v) ==
    {Envdata(v, 0, u, r) :
        u \in {USTATE_OK, USTATE_INSTALLED, USTATE_TESTING, USTATE_FAILED},
        r \in 0..MaxRevision}
    \cup {Envdata(v, 0, USTATE_UNKNOWN, MaxRevision)}
    \cup {Envdata(v, 1, u, MaxRevision) : u \in {USTATE_OK, USTATE_INSTALLED}}

\* The config file of volume v: absent, a valid record, or a record whose
\* checksum does not match.
ConfigFiles(v) ==
    {<<>>}
    \cup {<<e>> : e \in ValidEnvdata(v)}
    \cup {<<Corrupted(e)>> :
            e \in {d \in ValidEnvdata(v) :
                     d.in_progress = 0 /\ d.ustate = USTATE_INSTALLED
                     /\ d.revision = MaxRevision}}

\* A volume without a root holds no config file and is not enumerated.
NoRoot == [devpath |-> non_boot_volume, root |-> FALSE, envdata |-> <<>>]

ConfigVolume(v, dp, file) == [devpath |-> dp, root |-> TRUE, envdata |-> file]

\* The volume arrays of the engine scenarios: no volume at all, or up to
\* ENV_NUM_CONFIG_PARTS config partitions behind a volume without a root.
RECURSIVE ConfigVolumeSeqs(_, _)
ConfigVolumeSeqs(first, count) ==
    IF count = 0 THEN {<<>>}
    ELSE {<<ConfigVolume(first, non_boot_volume, file)>> \o rest :
            file \in ConfigFiles(first),
            rest \in ConfigVolumeSeqs(first + 1, count - 1)}

EngineVolumes ==
    {<<>>} \cup
    UNION {{<<NoRoot>> \o s : s \in ConfigVolumeSeqs(2, n)} :
             n \in 0..ENV_NUM_CONFIG_PARTS}

NoParams == [payload_path |-> <<>>, payload_options |-> <<>>, timeout |-> 0]

Locals ==
    [config_volumes |-> config_volumes, numHandles |-> numHandles, ix |-> ix,
     errored |-> errored, env |-> env, rank_envdata |-> rank_envdata,
     envrsrv |-> envrsrv]

InitWith(vols) ==
    /\ volumes = vols
    /\ volumes0 = vols
    /\ pc = "idle"
    /\ boot = 0
    /\ faulted = FALSE
    /\ bglp = NoParams
    /\ config_volumes = <<>>
    /\ numHandles = 0
    /\ ix = 0
    /\ errored = FALSE
    /\ env = EntryLocals.env
    /\ rank_envdata = EntryLocals.rank_envdata
    /\ envrsrv = EntryLocals.envrsrv
    /\ result = BG_CONFIG_ERROR
    /\ chosen = 0
    /\ saves = <<>>
    /\ loaded = {}
    /\ nfail = 0
    /\ fh_opened = 0
    /\ fh_closed = 0
    /\ pool_live = 0
    /\ call_in = [volumes |-> vols, bglp |-> NoParams]
    /\ opened_on = {}
    /\ failed_at = {}
    /\ reads = {}

Init == \E vols \in EngineVolumes : InitWith(vols)

(***************************************************************************)
(* Actions.                                                                *)
(***************************************************************************)
\* A boot calls load_config: the prologue runs up to the load loop, or
\* fails and returns.
Begin ==
    /\ pc = "idle"
    /\ boot < MaxBoots
    /\ boot' = boot + 1
    /\ \E f \in SUBSET {"AllocatePool", "enumerate_cfg_parts"} :
         LET b == load_config_begin(volumes, f)
         IN  /\ f \subseteq b.calls
             /\ Cardinality(f) <= MaxFaults
             /\ nfail' = Cardinality(f)
             /\ config_volumes' = b.config_volumes
             /\ numHandles' = b.numHandles
             /\ errored' = b.errored
             /\ result' = b.result
             /\ pc' = IF b.done THEN "idle" ELSE "loop"
             /\ faulted' = (faulted \/ f # {})
             /\ pool_live' = IF b.done THEN 0 ELSE 1
             /\ failed_at' = f
    /\ ix' = 0
    /\ env' = EntryLocals.env
    /\ rank_envdata' = EntryLocals.rank_envdata
    /\ envrsrv' = EntryLocals.envrsrv
    /\ chosen' = 0
    /\ saves' = <<>>
    /\ loaded' = {}
    /\ fh_opened' = 0
    /\ fh_closed' = 0
    /\ call_in' = [volumes |-> volumes, bglp |-> bglp]
    /\ opened_on' = {}
    /\ reads' = {}
    /\ UNCHANGED <<volumes, bglp, volumes0>>

\* One iteration of the load loop: read the next listed volume and sift it.
Load ==
    /\ pc = "loop"
    /\ ix < numHandles
    /\ \E f \in SUBSET {"open", "read", "close", "CalculateCrc32"} :
         LET n == load_config_iteration(Locals, volumes, f)
         IN  /\ f \subseteq n.calls
             /\ nfail + Cardinality(f) <= MaxFaults
             /\ nfail' = nfail + Cardinality(f)
             /\ env' = n.env
             /\ rank_envdata' = n.rank_envdata
             /\ envrsrv' = n.envrsrv
             /\ errored' = n.errored
             /\ ix' = n.ix
             /\ loaded' = IF EFI_ERROR(n.status) THEN loaded
                          ELSE loaded \cup {n.slot}
             /\ fh_opened' = fh_opened + n.opened
             /\ fh_closed' = fh_closed + n.closed
             /\ faulted' = (faulted \/ f # {})
             /\ opened_on' = opened_on \cup {n.slot.volume_index}
             /\ failed_at' = IF f = {} THEN failed_at
                              ELSE failed_at \cup {"read_config"}
             /\ reads' = reads \cup
                            {[volume_index |-> n.slot.volume_index,
                              status |-> n.status,
                              read_error |-> n.read_error,
                              failed |-> f]}
    /\ UNCHANGED <<volumes, pc, boot, bglp, config_volumes, numHandles,
                   result, chosen, saves, pool_live, call_in, volumes0>>

\* After the loop: choose, write back, hand off, free the vector, return.
SelectWith(outcomes) ==
    /\ \E f \in outcomes :
         LET n == load_config_select(Locals, volumes, bglp, f)
         IN  /\ f \subseteq n.calls
             /\ nfail + Cardinality(f) <= MaxFaults
             /\ nfail' = nfail + Cardinality(f)
             /\ env' = n.env
             /\ volumes' = n.volumes
             /\ bglp' = n.bglp
             /\ result' = n.result
             /\ chosen' = n.chosen
             /\ saves' = n.saves
             /\ fh_opened' = fh_opened + n.opened
             /\ fh_closed' = fh_closed + n.closed
             /\ faulted' = (faulted \/ f # {})
             /\ opened_on' = opened_on \cup
                                {n.saves[k].volume_index : k \in 1..Len(n.saves)}
             /\ failed_at' = IF f = {} THEN failed_at
                              ELSE failed_at \cup {"save_current_config"}
    /\ pc' = "idle"
    /\ pool_live' = pool_live - 1
    /\ UNCHANGED <<boot, config_volumes, numHandles, ix, errored, rank_envdata,
                   envrsrv, loaded, call_in, volumes0, reads>>

\* The calls of the epilogue fail as the error injection of the test makes
\* them fail.
Select ==
    /\ pc = "loop"
    /\ ix = numHandles
    /\ SelectWith(SUBSET {"open", "CalculateCrc32", "write", "close"})

Next == Begin \/ Load \/ Select

Spec == Init /\ [][Next]_vars

(***************************************************************************)
(* The same runs on a file layer whose Write may also come back short: it  *)
(* returns EFI_SUCCESS and reports fewer bytes than it was given.          *)
(***************************************************************************)
SelectShortWrite ==
    /\ pc = "loop"
    /\ ix = numHandles
    /\ SelectWith(SUBSET {"open", "CalculateCrc32", "write", "close"}
                  \cup {{"short_write"}})

ShortWriteNext == Begin \/ Load \/ SelectShortWrite

ShortWriteSpec == Init /\ [][ShortWriteNext]_vars

(***************************************************************************)
(* The ranking scenarios: one boot in which no external call fails, on     *)
(* ENV_NUM_CONFIG_PARTS + 1 volumes that all have a root, some of them on  *)
(* the boot volume and some on another disk (load_config_extra_cfg_part,   *)
(* load_config_extra_cfg_disk and the load_config_rank tests).            *)
(***************************************************************************)
\* Records of the two newest revisions in every state, a failed record of
\* revision REVISION_FAILED, and a record left in_progress.
RankEnvdata(v) ==
    {Envdata(v, 0, u, MaxRevision) :
        u \in {USTATE_OK, USTATE_INSTALLED, USTATE_TESTING, USTATE_FAILED,
               USTATE_UNKNOWN}}
    \cup {Envdata(v, 0, USTATE_OK, MaxRevision - 1),
          Envdata(v, 0, USTATE_FAILED, REVISION_FAILED),
          Envdata(v, 1, USTATE_OK, MaxRevision)}

RankFiles(v) ==
    {<<e>> : e \in RankEnvdata(v)}
    \cup {<<Corrupted(Envdata(v, 0, USTATE_OK, MaxRevision))>>}

RankDevpaths(v) ==
    IF v = 1 THEN {non_boot_volume, non_boot_disk}
    ELSE {boot_volume, non_boot_volume}

RECURSIVE RankVolumeSeqs(_, _)
RankVolumeSeqs(first, count) ==
    IF count = 0 THEN {<<>>}
    ELSE {<<ConfigVolume(first, dp, file)>> \o rest :
            dp \in RankDevpaths(first), file \in RankFiles(first),
            rest \in RankVolumeSeqs(first + 1, count - 1)}

RankVolumes == RankVolumeSeqs(1, ENV_NUM_CONFIG_PARTS + 1)

RankInit == \E vols \in RankVolumes : InitWith(vols)

RankBegin == boot = 0 /\ Begin /\ nfail' = 0

RankLoad == Load /\ nfail' = 0

RankSelect == Select /\ nfail' = 0

RankNext == RankBegin \/ RankLoad \/ RankSelect

RankSpec == RankInit /\ [][RankNext]_vars

(***************************************************************************)
(* The slot scenarios: the same single boot on more volumes than env[] has *)
(* slots, any of which may hold a record that read_config rejects.         *)
(***************************************************************************)
PoolEnvdata(v) ==
    {Envdata(v, 0, USTATE_OK, MaxRevision),
     Envdata(v, 0, USTATE_OK, MaxRevision - 1),
     Envdata(v, 0, USTATE_TESTING, MaxRevision),
     Envdata(v, 1, USTATE_OK, MaxRevision)}

PoolFiles(v) ==
    {<<e>> : e \in PoolEnvdata(v)}
    \cup {<<Corrupted(Envdata(v, 0, USTATE_INSTALLED, MaxRevision))>>}

\* The last slot-less volume is the one on the boot volume.
PoolDevpath(v) == IF v = ENVSLOTS + 1 THEN boot_volume ELSE non_boot_volume

RECURSIVE PoolVolumeSeqs(_, _)
PoolVolumeSeqs(first, count) ==
    IF count = 0 THEN {<<>>}
    ELSE {<<ConfigVolume(first, PoolDevpath(first), file)>> \o rest :
            file \in PoolFiles(first),
            rest \in PoolVolumeSeqs(first + 1, count - 1)}

PoolVolumes ==
    PoolVolumeSeqs(1, ENVSLOTS + 1) \cup PoolVolumeSeqs(1, ENVSLOTS + 2)

PoolInit == \E vols \in PoolVolumes : InitWith(vols)

PoolSpec == PoolInit /\ [][RankNext]_vars

(***************************************************************************)
(* Vocabulary of the properties.                                           *)
(***************************************************************************)
\* load_config has returned from the run most recently begun.
Returned == pc = "idle" /\ boot >= 1

\* The ranked leader and runner-up of this run, as read_config loaded them
\* (the epilogue changes the leader's slot in place).
LeaderVolume == env[rank_envdata[1]].volume_index
RunnerUpVolume == env[rank_envdata[2]].volume_index
AsLoaded(v) == (CHOOSE c \in loaded : c.volume_index = v).envdata
HasLeader == rank_envdata[1] # 0
HasRunnerUp == rank_envdata[2] # 0

\* The file of volume v holds exactly record e.
FileHolds(v, e) == volumes[v].envdata = <<e>>

\* Volume v is as it was when the run began.
Untouched(v) == volumes[v] = call_in.volumes[v]

\* The leader of this run was loaded not in_progress and in state u.
LeaderWas(u) ==
    /\ Returned
    /\ HasLeader
    /\ AsLoaded(LeaderVolume).in_progress = 0
    /\ AsLoaded(LeaderVolume).ustate = u

\* Record e with its checksum recomputed.
Stamped(e) == [e EXCEPT !.crc32 = bgenv_crc32(e)]

\* The record whose fields the hand-off copies.
CopiedIsOf(c) ==
    /\ bglp.payload_path = StrDuplicate(c.kernelfile)
    /\ bglp.payload_options = StrDuplicate(c.kernelparams)
    /\ bglp.timeout = c.watchdog_timeout_sec

(***************************************************************************)
(* C1 (P4).  As stated: whenever a run hands a configuration to the loader *)
(* and at least one successfully loaded candidate has in_progress = 0, the *)
(* record whose kernelfile, kernelparams and watchdog timeout were copied  *)
(* has in_progress = 0, also when the leader was TESTING and the runner-up *)
(* became the effective choice.  The code violates it: the runner-up is    *)
(* used without a look at its in_progress.                                 *)
(***************************************************************************)
C1_InProgressNeverSelected ==
    (Returned /\ chosen # 0 /\ \E c \in loaded : c.envdata.in_progress = 0)
        => /\ AsLoaded(chosen).in_progress = 0
           /\ CopiedIsOf(AsLoaded(chosen))

(***************************************************************************)
(* C2.  As stated: when the write-back after a TESTING->FAILED or          *)
(* INSTALLED->TESTING transition fails, load_config still returns the      *)
(* effective configuration and the verdict is                              *)
(* BG_CONFIG_PARTIALLY_CORRUPTED, never BG_SUCCESS.  The code violates the *)
(* second half: the result of save_current_config is discarded.            *)
(***************************************************************************)
C2_WriteBackFailureReported ==
    (Returned /\ saves # <<>> /\ saves[1].result # BG_SUCCESS
        /\ (AsLoaded(LeaderVolume).ustate = USTATE_INSTALLED \/ HasRunnerUp))
        => /\ chosen # 0
           /\ CopiedIsOf(AsLoaded(chosen))
           /\ result = BG_CONFIG_PARTIALLY_CORRUPTED

(***************************************************************************)
(* C3 (P7).  As stated: if the run without any failure returns BG_SUCCESS  *)
(* on the volumes as they were at the call, the run in which exactly one   *)
(* external call failed does not return BG_SUCCESS.  The code violates it  *)
(* for the calls of a write-back.                                          *)
(***************************************************************************)
C3_InjectedFailureNeverSuccess ==
    (Returned /\ nfail = 1
        /\ load_config(call_in.volumes, call_in.bglp).result = BG_SUCCESS)
        => result # BG_SUCCESS

(***************************************************************************)
(* C4.  When the ranked leader is not in_progress, was loaded TESTING and  *)
(* a runner-up exists: the leader's slot becomes FAILED with revision      *)
(* REVISION_FAILED; save_current_config is called once, for the leader's   *)
(* volume, with that record; what it hands to Write is that record with    *)
(* the checksum recomputed, and the file holds it afterwards (no Write is  *)
(* issued only if the open or the checksum of the write-back failed); all  *)
(* other volumes are untouched; the loader parameters come from the        *)
(* runner-up.                                                              *)
(***************************************************************************)
C4_TestingLeaderDemoted ==
    (LeaderWas(USTATE_TESTING) /\ HasRunnerUp) =>
        LET demoted == [AsLoaded(LeaderVolume) EXCEPT
                           !.ustate = USTATE_FAILED,
                           !.revision = REVISION_FAILED]
        IN  /\ env[rank_envdata[1]].envdata.ustate = USTATE_FAILED
            /\ env[rank_envdata[1]].envdata.revision = REVISION_FAILED
            /\ Len(saves) = 1
            /\ saves[1].volume_index = LeaderVolume
            /\ saves[1].envdata = demoted
            /\ nfail = 0 => saves[1].wrote # <<>>
            /\ saves[1].wrote # <<>> =>
                  /\ saves[1].wrote[1].Buffer = Stamped(demoted)
                  /\ FileHolds(LeaderVolume, Stamped(demoted))
            /\ saves[1].wrote = <<>> => Untouched(LeaderVolume)
            /\ \A v \in 1..Len(volumes) : v # LeaderVolume => Untouched(v)
            /\ chosen = RunnerUpVolume
            /\ CopiedIsOf(AsLoaded(RunnerUpVolume))
            /\ result # BG_CONFIG_ERROR

C4_Witness ==
    /\ LeaderWas(USTATE_TESTING)
    /\ HasRunnerUp
    /\ nfail = 0
    /\ result = BG_SUCCESS
    /\ AsLoaded(LeaderVolume).revision > REVISION_FAILED
    /\ volumes[LeaderVolume].envdata[1].ustate = USTATE_FAILED
    /\ bglp.timeout = AsLoaded(RunnerUpVolume).watchdog_timeout_sec

(***************************************************************************)
(* C5.  When the ranked leader is not in_progress and was loaded           *)
(* INSTALLED: save_current_config is called once, for the leader's volume, *)
(* with the leader's record changed to TESTING and nothing else (the       *)
(* revision is unchanged); Write gets it with the checksum recomputed and  *)
(* the file holds it afterwards; the loader parameters come from the       *)
(* leader.                                                                 *)
(***************************************************************************)
C5_InstalledLeaderTested ==
    LeaderWas(USTATE_INSTALLED) =>
        LET testing == [AsLoaded(LeaderVolume) EXCEPT !.ustate = USTATE_TESTING]
        IN  /\ testing.revision = AsLoaded(LeaderVolume).revision
            /\ Len(saves) = 1
            /\ saves[1].volume_index = LeaderVolume
            /\ saves[1].envdata = testing
            /\ nfail = 0 => saves[1].wrote # <<>>
            /\ saves[1].wrote # <<>> =>
                  /\ saves[1].wrote[1].Buffer = Stamped(testing)
                  /\ FileHolds(LeaderVolume, Stamped(testing))
            /\ saves[1].wrote = <<>> => Untouched(LeaderVolume)
            /\ \A v \in 1..Len(volumes) : v # LeaderVolume => Untouched(v)
            /\ chosen = LeaderVolume
            /\ CopiedIsOf(AsLoaded(LeaderVolume))
            /\ result # BG_CONFIG_ERROR

C5_Witness ==
    /\ LeaderWas(USTATE_INSTALLED)
    /\ HasRunnerUp
    /\ nfail = 0
    /\ result = BG_SUCCESS
    /\ volumes[LeaderVolume].envdata[1].ustate = USTATE_TESTING
    /\ volumes[LeaderVolume].envdata[1].revision = MaxRevision
    /\ bglp.timeout = AsLoaded(LeaderVolume).watchdog_timeout_sec

(***************************************************************************)
(* C6.  Rollback across boots.  At power-on the two listed volumes a and b *)
(* hold valid records that are not in_progress, a INSTALLED with the       *)
(* higher revision, b OK with a lower revision above REVISION_FAILED.      *)
(* While no external call fails: the first run chooses a and leaves a      *)
(* TESTING on disk; the second chooses b and leaves a FAILED with revision *)
(* REVISION_FAILED; every later run chooses b and saves nothing; b's file  *)
(* never changes.                                                          *)
(***************************************************************************)
ValidAtPowerOn(v) ==
    /\ volumes0[v].root
    /\ volumes0[v].devpath # non_boot_disk
    /\ volumes0[v].envdata # <<>>
    /\ volumes0[v].envdata[1].crc32 = bgenv_crc32(volumes0[v].envdata[1])
    /\ volumes0[v].envdata[1].in_progress = 0

RollbackScenario(a, b) ==
    /\ a # b
    /\ filter_cfg_parts(volumes0, enumerate_cfg_parts(volumes0, 1))
          \in {<<a, b>>, <<b, a>>}
    /\ ValidAtPowerOn(a)
    /\ ValidAtPowerOn(b)
    /\ volumes0[a].envdata[1].ustate = USTATE_INSTALLED
    /\ volumes0[b].envdata[1].ustate = USTATE_OK
    /\ volumes0[a].envdata[1].revision > volumes0[b].envdata[1].revision
    /\ volumes0[b].envdata[1].revision > REVISION_FAILED

C6_RollbackAcrossBoots ==
    \A a, b \in 1..Len(volumes0) :
        (RollbackScenario(a, b) /\ Returned /\ ~faulted) =>
            /\ volumes[b] = volumes0[b]
            /\ boot = 1 =>
                  /\ chosen = a
                  /\ volumes[a].envdata[1].ustate = USTATE_TESTING
                  /\ volumes[a].envdata[1].revision
                        = volumes0[a].envdata[1].revision
            /\ boot >= 2 =>
                  /\ chosen = b
                  /\ volumes[a].envdata[1].ustate = USTATE_FAILED
                  /\ volumes[a].envdata[1].revision = REVISION_FAILED
            /\ boot = 2 => Len(saves) = 1 /\ saves[1].volume_index = a
            /\ boot >= 3 => saves = <<>> /\ volumes = call_in.volumes
            /\ CopiedIsOf(AsLoaded(chosen))
            /\ result = BG_SUCCESS

C6_Witness ==
    \E a, b \in 1..Len(volumes0) :
        /\ RollbackScenario(a, b)
        /\ Returned
        /\ ~faulted
        /\ boot = 3
        /\ chosen = b
        /\ saves = <<>>

(***************************************************************************)
(* C7.  In every run save_current_config is called at most once and only   *)
(* for the volume of the ranked leader; it calls Write at most once, with  *)
(* the whole record (sizeof(BG_ENVDATA) bytes); the file of every other    *)
(* volume stays as it was when the run began.                              *)
(***************************************************************************)
C7_OneWriteBackToLeader ==
    /\ Len(saves) <= 1
    /\ saves # <<>> =>
          /\ HasLeader
          /\ saves[1].volume_index = LeaderVolume
          /\ Len(saves[1].wrote) <= 1
          /\ \A k \in 1..Len(saves[1].wrote) :
                saves[1].wrote[k].BufferSize = sizeof_BG_ENVDATA
    /\ fh_opened <= ix + Len(saves)
    /\ \A v \in 1..Len(volumes) :
          (saves = <<>> \/ v # LeaderVolume) => Untouched(v)

C7_Witness ==
    /\ Returned
    /\ HasRunnerUp
    /\ Len(saves) = 1
    /\ saves[1].wrote # <<>>
    /\ ~Untouched(LeaderVolume)
    /\ Untouched(RunnerUpVolume)

(***************************************************************************)
(* C8.  If read_config loaded no record in a run, or every record it       *)
(* loaded has in_progress set, load_config returns BG_CONFIG_ERROR, saves  *)
(* nothing and leaves every file as it was.                                *)
(***************************************************************************)
C8_NoViableLeader ==
    (Returned /\ \A c \in loaded : c.envdata.in_progress # 0) =>
        /\ result = BG_CONFIG_ERROR
        /\ chosen = 0
        /\ saves = <<>>
        /\ volumes = call_in.volumes

C8_Witness ==
    /\ Returned
    /\ Cardinality(loaded) = ENV_NUM_CONFIG_PARTS
    /\ \A c \in loaded : c.envdata.in_progress # 0
    /\ nfail = 0
    /\ result = BG_CONFIG_ERROR

(***************************************************************************)
(* C9.  Whenever load_config returns BG_CONFIG_ERROR, the caller's loader  *)
(* parameters are what they were before the call.                          *)
(***************************************************************************)
C9_ErrorLeavesParams ==
    (Returned /\ result = BG_CONFIG_ERROR) => bglp = call_in.bglp

C9_Witness ==
    /\ Returned
    /\ result = BG_CONFIG_ERROR
    /\ call_in.bglp # NoParams
    /\ bglp = call_in.bglp
    /\ LeaderWas(USTATE_TESTING)
    /\ saves # <<>>

Listed ==
    /\ boot >= 1
    /\ Len(call_in.volumes) # 0
    /\ failed_at \cap {"AllocatePool", "enumerate_cfg_parts"} = {}

\* The run returned from the epilogue.
Selected == Returned /\ Listed

\* The candidate the code takes after the transition of the leader.
EffectiveVolume ==
    IF AsLoaded(LeaderVolume).ustate = USTATE_TESTING
    THEN RunnerUpVolume ELSE LeaderVolume

RankOf(v) ==
    IF \E i \in 1..ENVSLOTS :
          rank_envdata[i] # 0 /\ env[rank_envdata[i]].volume_index = v
    THEN CHOOSE i \in 1..ENVSLOTS :
          rank_envdata[i] # 0 /\ env[rank_envdata[i]].volume_index = v
    ELSE ENVSLOTS + 1

\* Candidate c is ranked ahead of candidate d.
Ahead(c, d) == RankOf(c.volume_index) < RankOf(d.volume_index)

\* Candidates c and d agree on in_progress and revision.
SameProgressAndRevision(c, d) ==
    /\ c.envdata.in_progress = d.envdata.in_progress
    /\ c.envdata.revision = d.envdata.revision

\* The preference order of the states (P5): the lower, the more preferred.
StateRank(u) ==
    CASE u = USTATE_INSTALLED -> 0
      [] u = USTATE_TESTING -> 1
      [] u = USTATE_OK -> 2
      [] OTHER -> 3

OnBootVolume(c) == volumes[c.volume_index].devpath = boot_volume

(***************************************************************************)
(* C12 (P3).  When every record loaded so far is not in_progress and no    *)
(* two of them have the same revision, the ranked leader is the record of  *)
(* the highest revision; if that record is OK, the run that returns hands  *)
(* off its kernelfile, kernelparams and timeout, saves nothing and leaves  *)
(* every file as it was.                                                   *)
(***************************************************************************)
C12_HighestRevisionLeads ==
    (/\ loaded # {}
     /\ \A c \in loaded : c.envdata.in_progress = 0
     /\ \A c, d \in loaded : c # d => c.envdata.revision # d.envdata.revision)
    => /\ HasLeader
       /\ \A c \in loaded :
             c.envdata.revision <= AsLoaded(LeaderVolume).revision
       /\ (Returned /\ AsLoaded(LeaderVolume).ustate = USTATE_OK) =>
             /\ chosen = LeaderVolume
             /\ CopiedIsOf(AsLoaded(LeaderVolume))
             /\ saves = <<>>
             /\ volumes = call_in.volumes
             /\ result # BG_CONFIG_ERROR

C12_Witness ==
    /\ Returned
    /\ Cardinality(loaded) = ENV_NUM_CONFIG_PARTS + 1
    /\ \A c \in loaded : c.envdata.in_progress = 0
    /\ \A c, d \in loaded : c # d => c.envdata.revision # d.envdata.revision
    /\ AsLoaded(LeaderVolume).ustate = USTATE_OK
    /\ AsLoaded(LeaderVolume).revision = MaxRevision
    /\ LeaderVolume = config_volumes[numHandles]
    /\ bglp.timeout = AsLoaded(LeaderVolume).watchdog_timeout_sec
    /\ saves = <<>>

(***************************************************************************)
(* C13.  in_progress dominates the revision: a loaded record that is not   *)
(* in_progress is ranked ahead of every loaded record that is in_progress, *)
(* whatever their revisions; so the ranked leader is in_progress only if   *)
(* every loaded record is.                                                 *)
(***************************************************************************)
C13_InProgressDominates ==
    /\ \A c, d \in loaded :
          (c.envdata.in_progress = 0 /\ d.envdata.in_progress # 0)
              => Ahead(c, d)
    /\ (HasLeader /\ AsLoaded(LeaderVolume).in_progress # 0)
          => \A c \in loaded : c.envdata.in_progress # 0

C13_Witness ==
    \E c, d \in loaded :
        /\ c.envdata.in_progress = 0
        /\ d.envdata.in_progress # 0
        /\ c.envdata.revision < d.envdata.revision
        /\ c.volume_index > d.volume_index
        /\ LeaderVolume = c.volume_index
        /\ Returned

(***************************************************************************)
(* C14 (P5).  Between two loaded records of equal in_progress and equal    *)
(* revision, the one whose state comes first in INSTALLED, TESTING, OK,    *)
(* anything else is ranked ahead, wherever the two volumes are and         *)
(* whatever their indices.                                                 *)
(***************************************************************************)
C14_StateRankOrder ==
    \A c, d \in loaded :
        (/\ SameProgressAndRevision(c, d)
         /\ StateRank(c.envdata.ustate) < StateRank(d.envdata.ustate))
            => Ahead(c, d)

C14_Witness ==
    \E b, c, d \in loaded :
        /\ SameProgressAndRevision(b, c)
        /\ SameProgressAndRevision(c, d)
        /\ b.envdata.ustate = USTATE_INSTALLED
        /\ c.envdata.ustate = USTATE_TESTING
        /\ d.envdata.ustate = USTATE_OK
        /\ b.volume_index > c.volume_index
        /\ c.volume_index > d.volume_index
        /\ OnBootVolume(c)
        /\ ~OnBootVolume(b)
        /\ Ahead(b, c)
        /\ Ahead(c, d)

(***************************************************************************)
(* C15 (P6).  Between two loaded records equal on in_progress, revision    *)
(* and state rank, the one on the boot volume is ranked ahead of the one   *)
(* that is not, whatever their volume indices.                             *)
(***************************************************************************)
C15_BootVolumeTiebreak ==
    \A c, d \in loaded :
        (/\ SameProgressAndRevision(c, d)
         /\ StateRank(c.envdata.ustate) = StateRank(d.envdata.ustate)
         /\ OnBootVolume(c)
         /\ ~OnBootVolume(d))
            => Ahead(c, d)

C15_Witness ==
    \E c, d \in loaded :
        /\ SameProgressAndRevision(c, d)
        /\ c.envdata.ustate = USTATE_FAILED
        /\ d.envdata.ustate = USTATE_UNKNOWN
        /\ OnBootVolume(c)
        /\ ~OnBootVolume(d)
        /\ c.volume_index > d.volume_index
        /\ Ahead(c, d)

(***************************************************************************)
(* C16.  Between two loaded records equal on in_progress, revision, state  *)
(* rank and boot-volume membership, the one on the volume of the lower     *)
(* index is ranked ahead.  Two entries of the same volume index are never  *)
(* swapped by sift_envdata_volume; load_config never has two such entries, *)
(* as no two loaded candidates share a volume index.                       *)
(***************************************************************************)
C16_VolumeIndexTiebreak ==
    /\ \A c, d \in loaded :
          (/\ SameProgressAndRevision(c, d)
           /\ StateRank(c.envdata.ustate) = StateRank(d.envdata.ustate)
           /\ OnBootVolume(c) = OnBootVolume(d)
           /\ c.volume_index < d.volume_index)
              => Ahead(c, d)
    /\ \A c, d \in loaded : c.volume_index = d.volume_index => c = d
    /\ \A c \in loaded :
          sift_envdata_volume(<<1, 2>>, <<c, c>>, volumes, 1) = <<1, 2>>

C16_Witness ==
    \E c, d \in loaded :
        /\ SameProgressAndRevision(c, d)
        /\ StateRank(c.envdata.ustate) = StateRank(d.envdata.ustate)
        /\ OnBootVolume(c)
        /\ OnBootVolume(d)
        /\ c.volume_index < d.volume_index
        /\ Ahead(c, d)
        /\ LeaderVolume = c.volume_index
        /\ Returned

(***************************************************************************)
(* shuffle_volumes of the test: every order of the volume array.           *)
(***************************************************************************)
shuffle_volumes(vols) ==
    {[vx \in 1..Len(vols) |-> vols[p[vx]]] :
        p \in {q \in [1..Len(vols) -> 1..Len(vols)] :
                 \A i, j \in 1..Len(vols) : i # j => q[i] # q[j]}}

\* No two loaded candidates tie on in_progress, revision, state rank and
\* boot-volume membership.
TieBreakersResolved ==
    \A c, d \in loaded :
        c # d => ~(/\ SameProgressAndRevision(c, d)
                   /\ StateRank(c.envdata.ustate) = StateRank(d.envdata.ustate)
                   /\ OnBootVolume(c) = OnBootVolume(d))

(***************************************************************************)
(* C17 (P1).  When no two loadable records tie on in_progress, revision,   *)
(* state rank and boot-volume membership, load_config on every order of    *)
(* the volume array returns the verdict and the payload path, payload      *)
(* options and timeout that the run on the given order returned.           *)
(***************************************************************************)
C17_ShuffleInvariant ==
    (Returned /\ nfail = 0 /\ TieBreakersResolved) =>
        \A shuffled \in shuffle_volumes(call_in.volumes) :
            LET other == load_config(shuffled, call_in.bglp)
            IN  /\ other.result = result
                /\ other.bglp = bglp

C17_Witness ==
    /\ Returned
    /\ nfail = 0
    /\ TieBreakersResolved
    /\ Cardinality(loaded) = ENV_NUM_CONFIG_PARTS + 1
    /\ chosen = config_volumes[numHandles]
    /\ \E shuffled \in shuffle_volumes(call_in.volumes) :
          LET other == load_config(shuffled, call_in.bglp)
          IN  /\ other.chosen = 1
              /\ other.chosen # chosen
              /\ other.bglp = bglp
              /\ other.bglp # call_in.bglp

C19_PrologueFailure ==
    (/\ Returned
     /\ \/ Len(call_in.volumes) = 0
        \/ "AllocatePool" \in failed_at
        \/ "enumerate_cfg_parts" \in failed_at)
    => /\ result = BG_CONFIG_ERROR
       /\ opened_on = {}
       /\ fh_opened = 0
       /\ loaded = {}
       /\ saves = <<>>
       /\ volumes = call_in.volumes
       /\ bglp = call_in.bglp
       /\ pool_live = 0

C19_Witness ==
    /\ Returned
    /\ "enumerate_cfg_parts" \in failed_at
    /\ load_config(call_in.volumes, call_in.bglp).result = BG_SUCCESS
    /\ load_config(call_in.volumes, call_in.bglp).volumes # call_in.volumes
    /\ result = BG_CONFIG_ERROR
    /\ opened_on = {}
    /\ volumes = call_in.volumes

(***************************************************************************)
(* C20.  Steady state.  When the ranked leader is not in_progress and its  *)
(* state is neither TESTING nor INSTALLED, load_config leaves the leader's *)
(* record as loaded, chooses it, hands off its fields, saves nothing and   *)
(* leaves every file as it was; and when no call failed, load_config run   *)
(* again on the files makes the same choice with the same verdict and      *)
(* again changes no file.                                                  *)
(***************************************************************************)
C20_SteadyState ==
    (/\ Returned
     /\ HasLeader
     /\ AsLoaded(LeaderVolume).in_progress = 0
     /\ AsLoaded(LeaderVolume).ustate \notin {USTATE_TESTING, USTATE_INSTALLED})
    => /\ env[rank_envdata[1]].envdata = AsLoaded(LeaderVolume)
       /\ chosen = LeaderVolume
       /\ CopiedIsOf(AsLoaded(LeaderVolume))
       /\ saves = <<>>
       /\ volumes = call_in.volumes
       /\ result # BG_CONFIG_ERROR
       /\ nfail = 0 =>
             LET again == load_config(volumes, bglp)
             IN  /\ again.chosen = chosen
                 /\ again.bglp = bglp
                 /\ again.result = result
                 /\ again.volumes = volumes

C20_Witness ==
    /\ Returned
    /\ boot >= 2
    /\ ~faulted
    /\ HasRunnerUp
    /\ AsLoaded(LeaderVolume).in_progress = 0
    /\ AsLoaded(LeaderVolume).ustate = USTATE_FAILED
    /\ AsLoaded(RunnerUpVolume).ustate = USTATE_INSTALLED
    /\ chosen = LeaderVolume
    /\ saves = <<>>
    /\ volumes = volumes0
    /\ bglp = call_in.bglp

(***************************************************************************)
(* Vocabulary of the claims on read_config.                                *)
(***************************************************************************)
\* The config file of volume v, as it was when the run began, holds a whole
\* record whose checksum matches.
FileValid(v) ==
    /\ call_in.volumes[v].envdata # <<>>
    /\ call_in.volumes[v].envdata[1].crc32
          = bgenv_crc32(call_in.volumes[v].envdata[1])

\* Read r met one of: open failure, read failure, a length other than
\* sizeof(BG_ENVDATA), CalculateCrc32 failure, checksum mismatch.
ReadFailure(r) ==
    \/ r.failed \cap {"open", "read", "CalculateCrc32"} # {}
    \/ ~FileValid(r.volume_index)

(***************************************************************************)
(* C21.  A read_config that meets an open failure, a read failure, a wrong *)
(* length, a CalculateCrc32 failure or a checksum mismatch sets the error  *)
(* flag and returns an error status; the volume is not among the loaded    *)
(* candidates, is never leader or runner-up, is not chosen, and the run    *)
(* does not return BG_SUCCESS.                                             *)
(***************************************************************************)
C21_ReadFailureSkipsVolume ==
    \A r \in reads :
        ReadFailure(r) =>
            /\ r.read_error
            /\ EFI_ERROR(r.status)
            /\ r.failed \cap {"open", "read"} = {} =>
                  r.status = IF call_in.volumes[r.volume_index].envdata = <<>>
                                 THEN EFI_BAD_BUFFER_SIZE
                             ELSE IF "CalculateCrc32" \in r.failed
                                 THEN EFI_INVALID_PARAMETER
                             ELSE EFI_CRC_ERROR
            /\ errored
            /\ \A c \in loaded : c.volume_index # r.volume_index
            /\ RankOf(r.volume_index) \notin {1, 2}
            /\ Returned => (result # BG_SUCCESS /\ chosen # r.volume_index)

C21_Witness ==
    \E r \in reads :
        /\ r.status = EFI_CRC_ERROR
        /\ r.volume_index = config_volumes[1]
        /\ call_in.volumes[r.volume_index].envdata[1].revision = MaxRevision
        /\ Returned
        /\ chosen # 0
        /\ AsLoaded(chosen).revision < MaxRevision
        /\ result = BG_CONFIG_PARTIALLY_CORRUPTED

(***************************************************************************)
(* C22.  When only the close fails in a read_config of a whole record with *)
(* a matching checksum, read_config returns EFI_SUCCESS with the error     *)
(* flag set; the record is a loaded candidate and is ranked; the run does  *)
(* not return BG_SUCCESS, and when it chooses a configuration the verdict  *)
(* is BG_CONFIG_PARTIALLY_CORRUPTED.                                       *)
(***************************************************************************)
C22_CloseFailureIsWarning ==
    \A r \in reads :
        ("close" \in r.failed /\ ~ReadFailure(r)) =>
            /\ r.status = EFI_SUCCESS
            /\ r.read_error
            /\ errored
            /\ \E c \in loaded : c.volume_index = r.volume_index
            /\ RankOf(r.volume_index) <= ENVSLOTS
            /\ Returned =>
                  /\ result # BG_SUCCESS
                  /\ chosen # 0 => result = BG_CONFIG_PARTIALLY_CORRUPTED

C22_Witness ==
    \E r \in reads :
        /\ r.failed = {"close"}
        /\ r.status = EFI_SUCCESS
        /\ Returned
        /\ chosen = r.volume_index
        /\ CopiedIsOf(AsLoaded(chosen))
        /\ result = BG_CONFIG_PARTIALLY_CORRUPTED

C24_NoResourceLeak ==
    /\ fh_closed = fh_opened
    /\ fh_opened >= Cardinality({r \in reads : "open" \notin r.failed})
    /\ fh_opened <= Cardinality(reads) + Len(saves)
    /\ pc = "loop" => pool_live = 1
    /\ pc = "idle" => pool_live = 0

C24_Witness ==
    /\ Returned
    /\ Listed
    /\ "read_config" \notin failed_at
    /\ "save_current_config" \in failed_at
    /\ Cardinality(reads) = ENV_NUM_CONFIG_PARTS
    /\ fh_opened = ENV_NUM_CONFIG_PARTS + 1
    /\ fh_closed = fh_opened
    /\ saves[1].result # BG_SUCCESS
    /\ pool_live = 0

\* Records a and b agree on every field but the checksum.
SameLogicalRecord(a, b) ==
    /\ a.revision = b.revision
    /\ a.in_progress = b.in_progress
    /\ a.ustate = b.ustate
    /\ a.watchdog_timeout_sec = b.watchdog_timeout_sec
    /\ a.kernelfile = b.kernelfile
    /\ a.kernelparams = b.kernelparams

(***************************************************************************)
(* C25 (P2).  Round trip.  After a save_current_config that returned       *)
(* BG_SUCCESS, read_config on that volume succeeds without raising the     *)
(* error flag and yields the revision, in_progress, state, timeout and     *)
(* strings that were saved, with a matching checksum; and every record a   *)
(* run loads is the record its file held when the run began (with the      *)
(* strings terminated), so the next boot loads what this one wrote.        *)
(***************************************************************************)
C25_WriteReadRoundTrip ==
    /\ \A k \in 1..Len(saves) :
          saves[k].result = BG_SUCCESS =>
              LET rc == read_config(volumes[saves[k].volume_index],
                                    Uninitialized, {})
              IN  /\ rc.status = EFI_SUCCESS
                  /\ ~rc.errored
                  /\ SameLogicalRecord(rc.envdata, saves[k].envdata)
                  /\ rc.envdata.crc32 = bgenv_crc32(saves[k].envdata)
    /\ \A c \in loaded :
          LET file == call_in.volumes[c.volume_index].envdata[1]
          IN  /\ c.envdata.crc32 = file.crc32
              /\ SameLogicalRecord(c.envdata,
                    [file EXCEPT !.kernelfile = NulTerminate(@),
                                 !.kernelparams = NulTerminate(@)])

C25_Witness ==
    \E c \in loaded :
        /\ boot = 2
        /\ ~faulted
        /\ volumes0[c.volume_index].envdata[1].ustate = USTATE_INSTALLED
        /\ c.envdata.ustate = USTATE_TESTING
        /\ c.envdata.revision = MaxRevision
        /\ Returned
        /\ saves # <<>>
        /\ saves[1].result = BG_SUCCESS
        /\ volumes[c.volume_index].envdata[1].ustate = USTATE_FAILED

\* Candidate c is preferred to candidate d: not in_progress, then the higher
\* revision, then the lower state rank, then the boot volume, then the lower
\* volume index.
Preferred(c, d) ==
    IF c.envdata.in_progress # d.envdata.in_progress
    THEN c.envdata.in_progress < d.envdata.in_progress
    ELSE IF c.envdata.revision # d.envdata.revision
    THEN c.envdata.revision > d.envdata.revision
    ELSE IF StateRank(c.envdata.ustate) # StateRank(d.envdata.ustate)
    THEN StateRank(c.envdata.ustate) < StateRank(d.envdata.ustate)
    ELSE IF OnBootVolume(c) # OnBootVolume(d)
    THEN OnBootVolume(c)
    ELSE c.volume_index < d.volume_index

\* The most preferred candidate of a non-empty set.
MostPreferred(S) == CHOOSE c \in S : \A d \in S \ {c} : Preferred(c, d)

(***************************************************************************)
(* C26 (P9).  After every iteration of the load loop, whatever the number  *)
(* of listed volumes and whichever reads failed: the leader is the most    *)
(* preferred of the records loaded so far and the runner-up the most       *)
(* preferred of the others, in the order in_progress, revision, state      *)
(* rank, boot volume, volume index; the runner-up is null when one record  *)
(* was loaded, and both are null when none was.                            *)
(***************************************************************************)
C26_TopTwoOfLoaded ==
    pc = "loop" =>
        /\ loaded = {} => ~HasLeader /\ ~HasRunnerUp
        /\ loaded # {} =>
              /\ HasLeader
              /\ env[rank_envdata[1]] = MostPreferred(loaded)
        /\ Cardinality(loaded) = 1 => ~HasRunnerUp
        /\ Cardinality(loaded) >= 2 =>
              /\ HasRunnerUp
              /\ env[rank_envdata[2]] =
                    MostPreferred(loaded \ {MostPreferred(loaded)})

\* More volumes than slots were read, one read failed, and the two most
\* preferred records were read after the slots had filled.
C26_Witness ==
    /\ pc = "loop"
    /\ ix = numHandles
    /\ numHandles > ENVSLOTS
    /\ Cardinality(loaded) = numHandles - 1
    /\ \E r \in reads : EFI_ERROR(r.status) /\ r.volume_index = 2
    /\ LeaderVolume = numHandles
    /\ RunnerUpVolume = numHandles - 1

\* The slots that rank_envdata points to.
RankedSlots == {rank_envdata[i] : i \in {j \in 1..ENVSLOTS : rank_envdata[j] # 0}}

\* The slot the next iteration of the load loop reads into.
ScratchSlot ==
    IF rank_envdata[ENVSLOTS] # 0 THEN rank_envdata[ENVSLOTS] ELSE envrsrv

(***************************************************************************)
(* C27 (P9).  Whatever the number of listed volumes and whichever reads    *)
(* fail: the reserve never gives out more than its ENVSLOTS slots; the     *)
(* non-null entries of rank_envdata are slots taken from the reserve, one  *)
(* entry per taken slot, no slot twice; and the slot that the next         *)
(* iteration reads into is a slot of env[] that is neither the leader's    *)
(* nor the runner-up's.                                                    *)
(***************************************************************************)
C27_SlotPool ==
    /\ envrsrv \in 0..ENVSLOTS
    /\ RankedSlots = (envrsrv + 1)..ENVSLOTS
    /\ \A i, j \in 1..ENVSLOTS :
          rank_envdata[i] # 0 /\ rank_envdata[i] = rank_envdata[j] => i = j
    /\ pc = "loop" /\ ix < numHandles =>
          /\ ScratchSlot \in 1..ENVSLOTS
          /\ ScratchSlot \notin {rank_envdata[1], rank_envdata[2]}

\* The reserve is empty, a read has failed, and there are volumes left to
\* read while a leader and a runner-up are held.
C27_Witness ==
    /\ pc = "loop"
    /\ numHandles > ENVSLOTS
    /\ ix > ENVSLOTS
    /\ ix < numHandles
    /\ envrsrv = 0
    /\ \E r \in reads : EFI_ERROR(r.status)
    /\ HasLeader
    /\ HasRunnerUp

\* This step is an iteration of the load loop whose read_config failed.
FailedLoad ==
    /\ pc = "loop"
    /\ ix' = ix + 1
    /\ \E r \in reads' \ reads : EFI_ERROR(r.status)

(***************************************************************************)
(* C28 (P9).  An iteration of the load loop whose read fails leaves        *)
(* rank_envdata[0] and rank_envdata[1] pointing where they pointed, and    *)
(* the slots they point to holding what they held; it sets errored, and    *)
(* of env[] it changes nothing but the slot it read into; the volumes, the *)
(* loader parameters and the list of config volumes stay as they were.     *)
(***************************************************************************)
C28_FailedLoadFrame ==
    [][FailedLoad =>
        /\ rank_envdata'[1] = rank_envdata[1]
        /\ rank_envdata'[2] = rank_envdata[2]
        /\ HasLeader => env'[rank_envdata[1]] = env[rank_envdata[1]]
        /\ HasRunnerUp => env'[rank_envdata[2]] = env[rank_envdata[2]]
        /\ errored'
        /\ rank_envdata'[ENVSLOTS] # 0
        /\ \A s \in 1..ENVSLOTS :
              env'[s] # env[s] => s = rank_envdata'[ENVSLOTS]
        /\ loaded' = loaded
        /\ UNCHANGED <<volumes, bglp, config_volumes, numHandles>>]_vars

\* A read has just failed while a leader and a runner-up were held, and the
\* scratch slot carries the index of the volume whose read failed.
C28_Witness ==
    /\ pc = "loop"
    /\ ix >= ENVSLOTS
    /\ HasLeader
    /\ HasRunnerUp
    /\ errored
    /\ rank_envdata[ENVSLOTS] # 0
    /\ env[rank_envdata[ENVSLOTS]].volume_index = config_volumes[ix]
    /\ \E r \in reads :
          r.volume_index = config_volumes[ix] /\ EFI_ERROR(r.status)

(***************************************************************************)
(* C29 (P6).  When the leader was loaded TESTING and there is a runner-up, *)
(* whatever the runner-up's state and revision: the runner-up's slot and   *)
(* its file are as they were loaded, the one write-back of the run is the  *)
(* leader's, and the loader is handed the runner-up's kernelfile,          *)
(* kernelparams and timeout as loaded.  An INSTALLED runner-up is thus     *)
(* handed off while its record stays INSTALLED.                            *)
(***************************************************************************)
C29_RunnerUpUsedAsLoaded ==
    LeaderWas(USTATE_TESTING) /\ HasRunnerUp =>
        /\ env[rank_envdata[2]].envdata = AsLoaded(RunnerUpVolume)
        /\ Untouched(RunnerUpVolume)
        /\ Len(saves) = 1
        /\ saves[1].volume_index = LeaderVolume
        /\ saves[1].volume_index # RunnerUpVolume
        /\ chosen = RunnerUpVolume
        /\ CopiedIsOf(AsLoaded(RunnerUpVolume))

\* A TESTING leader was demoted in its file, and the INSTALLED runner-up
\* was handed off with its file still INSTALLED.
C29_Witness ==
    /\ LeaderWas(USTATE_TESTING)
    /\ HasRunnerUp
    /\ AsLoaded(RunnerUpVolume).ustate = USTATE_INSTALLED
    /\ volumes[RunnerUpVolume].envdata[1].ustate = USTATE_INSTALLED
    /\ volumes[LeaderVolume].envdata[1].ustate = USTATE_FAILED
    /\ chosen = RunnerUpVolume
    /\ bglp.timeout = AsLoaded(RunnerUpVolume).watchdog_timeout_sec

\* The ustate changes that a write-back may make to a file.
ForwardUstates ==
    {<<USTATE_INSTALLED, USTATE_TESTING>>, <<USTATE_TESTING, USTATE_FAILED>>}

\* The file of volume v differs after this step.
Rewritten(v) == volumes'[v].envdata # volumes[v].envdata

(***************************************************************************)
(* C30 (P6, P7).  Over any sequence of runs and whichever calls fail, a    *)
(* step that changes the file of a volume replaces a record by a record:   *)
(* the ustate stays or goes from INSTALLED to TESTING or from TESTING to   *)
(* FAILED, the revision stays or becomes REVISION_FAILED, and the record   *)
(* written is not in_progress.  Nothing else of a volume changes, and no   *)
(* file is created or removed.                                             *)
(***************************************************************************)
C30_RecordsMoveForward ==
    [][/\ Len(volumes') = Len(volumes)
       /\ \A v \in 1..Len(volumes) :
            /\ volumes'[v].devpath = volumes[v].devpath
            /\ volumes'[v].root = volumes[v].root
            /\ Rewritten(v) =>
                 /\ Len(volumes[v].envdata) = 1
                 /\ Len(volumes'[v].envdata) = 1
                 /\ LET old == volumes[v].envdata[1]
                        new == volumes'[v].envdata[1]
                    IN  /\ \/ new.ustate = old.ustate
                           \/ <<old.ustate, new.ustate>> \in ForwardUstates
                        /\ new.revision \in {old.revision, REVISION_FAILED}
                        /\ new.revision <= old.revision
                        /\ new.in_progress = 0]_vars

\* Over two runs the record of a volume went from INSTALLED, at a revision
\* above REVISION_FAILED, through TESTING to FAILED at REVISION_FAILED.
C30_Witness ==
    /\ Returned
    /\ boot >= 2
    /\ \E v \in 1..Len(volumes) :
          /\ Len(volumes0[v].envdata) = 1
          /\ volumes0[v].envdata[1].ustate = USTATE_INSTALLED
          /\ volumes0[v].envdata[1].revision > REVISION_FAILED
          /\ volumes0[v].envdata[1] = Stamped(volumes0[v].envdata[1])
          /\ Len(volumes[v].envdata) = 1
          /\ volumes[v].envdata[1].ustate = USTATE_FAILED
          /\ volumes[v].envdata[1].revision = REVISION_FAILED
          /\ volumes[v].envdata[1].in_progress = 0

=============================================================================
